---- MODULE Spec2Model ----
(***************************************************************************)
(* camlistored: request routing, partition registry and method/action      *)
(* dispatch of server/go/camlistored/camlistored.go.                       *)
(*                                                                         *)
(* Go strings are modelled as sequences of one-character strings, so that  *)
(* strings.Index, strings.HasPrefix, strings.Split and the slice           *)
(* expressions of the source are computed character by character.          *)
(***************************************************************************)
EXTENDS Integers, Sequences, FiniteSets

\* ------------------------------------------------------------------------
\* Bounds of the model
\* ------------------------------------------------------------------------

\* largest number of "/camli/<action>" segments appended to a request path
MaxMarkers == 2

\* largest number of comma-separated entries in --queue-partitions
MaxQueueNames == 2

\* ------------------------------------------------------------------------
\* String constants of the program
\* ------------------------------------------------------------------------

camliPrefix == <<"/", "c", "a", "m", "l", "i", "/">>

partitionPrefix == <<"/", "p", "a", "r", "t", "i", "t", "i", "o", "n", "-">>

indexerPrefix == <<"/", "i", "n", "d", "e", "x", "e", "r">>

indexerName == <<"i", "n", "d", "e", "x", "e", "r">>

\* mainPartition.urlbase as constructed, before ws.BaseURL() is known
placeholderURL == <<"h", "t", "t", "p", ":", "/", "/", "l", "o", "c", "a", "l", "h", "o", "s", "t">>

\* the value ws.BaseURL() returns once the web server exists
serverURL == <<"h", "t", "t", "p", ":", "/", "/", "h", ":", "8", "0">>

S_enumerate == <<"e", "n", "u", "m", "e", "r", "a", "t", "e", "-", "b", "l", "o", "b", "s">>

S_stat == <<"s", "t", "a", "t">>

S_upload == <<"u", "p", "l", "o", "a", "d">>

S_remove == <<"r", "e", "m", "o", "v", "e">>

P_root == <<"/">>

P_camli == <<"/", "c", "a", "m", "l", "i", "/">>

P_setup == <<"/", "s", "e", "t", "u", "p">>

P_search == <<"/", "c", "a", "m", "l", "i", "/", "s", "e", "a", "r", "c", "h">>

P_indexer == <<"/", "i", "n", "d", "e", "x", "e", "r", "/">>

P_js == <<"/", "j", "s", "/">>

\* ------------------------------------------------------------------------
\* Go string primitives (0-based indices, as in the source)
\* ------------------------------------------------------------------------

\* s[i:j]
Slice(s, i, j) == SubSeq(s, i + 1, j)

\* s[i:]
SliceFrom(s, i) == SubSeq(s, i + 1, Len(s))

\* whether the slice expression s[i:j] is within bounds (it panics otherwise)
SliceInBounds(s, i, j) == 0 <= i /\ i <= j /\ j <= Len(s)

\* strings.HasPrefix(s, prefix)
HasPrefix(s, prefix) ==
    /\ Len(s) >= Len(prefix)
    /\ SubSeq(s, 1, Len(prefix)) = prefix

\* strings.Index(s, sub): index of the first occurrence of sub in s, or -1
Index(s, sub) ==
    LET hits == {i \in 0..(Len(s) - Len(sub)) : Slice(s, i, i + Len(sub)) = sub}
    IN  IF hits = {} THEN -1
        ELSE CHOOSE i \in hits : \A j \in hits : i <= j

\* strings.Index taking the last occurrence instead of the first
Index_last(s, sub) ==
    LET hits == {i \in 0..(Len(s) - Len(sub)) : Slice(s, i, i + Len(sub)) = sub}
    IN  IF hits = {} THEN -1
        ELSE CHOOSE i \in hits : \A j \in hits : i >= j

RECURSIVE Split(_, _)
\* strings.Split(s, sep, -1) for a one-character separator
Split(s, sep) ==
    LET i == Index(s, sep)
    IN  IF i = -1 THEN <<s>>
        ELSE <<Slice(s, 0, i)>> \o Split(SliceFrom(s, i + Len(sep)), sep)

RECURSIVE Join(_, _)
\* strings.Join(names, sep): how a --queue-partitions value is written
Join(names, sep) ==
    IF names = <<>> THEN <<>>
    ELSE IF Len(names) = 1 THEN names[1]
    ELSE names[1] \o sep \o Join(Tail(names), sep)

\* ------------------------------------------------------------------------
\* Path grammar
\* ------------------------------------------------------------------------

\* partition names must not contain a slash nor the partition-prefix token
isValidPartitionName(name) ==
    /\ Index(name, <<"/">>) = -1
    /\ Index(name, partitionPrefix) = -1

\* a parse result: the three named results of parseCamliPath
ParseResult(partitionName, action, err) ==
    [partitionName |-> partitionName, action |-> action, err |-> err]

\* parseCamliPath that does not reject a path lacking the partition prefix
parseCamliPath_noPrefixCheck(path) ==
    LET camIdx == Index(path, camliPrefix)
    IN  IF camIdx = -1 THEN ParseResult(<<>>, <<>>, "InvalidCamliPath")
        ELSE LET action == SliceFrom(path, camIdx + Len(camliPrefix))
             IN  IF camIdx = 0 THEN ParseResult(<<>>, action, "nil")
                 ELSE ParseResult(Slice(path, 0, camIdx), action, "nil")

\* parseCamliPath whose action still begins with the marker's last character
parseCamliPath_shortSkip(path) ==
    LET camIdx == Index(path, camliPrefix)
    IN  IF camIdx = -1 THEN ParseResult(<<>>, <<>>, "InvalidCamliPath")
        ELSE LET action == SliceFrom(path, camIdx + Len(camliPrefix) - 1)
             IN  IF camIdx = 0 THEN ParseResult(<<>>, action, "nil")
                 ELSE IF ~HasPrefix(path, partitionPrefix)
                      THEN ParseResult(<<>>, action, "InvalidCamliPath")
                 ELSE LET partitionName == Slice(path, Len(partitionPrefix), camIdx)
                      IN  IF ~isValidPartitionName(partitionName)
                          THEN ParseResult(partitionName, action, "InvalidCamliPath")
                          ELSE ParseResult(partitionName, action, "nil")

\* parseCamliPath splitting at the last marker instead of the first
parseCamliPath_lastMarker(path) ==
    LET camIdx == Index_last(path, camliPrefix)
    IN  IF camIdx = -1 THEN ParseResult(<<>>, <<>>, "InvalidCamliPath")
        ELSE LET action == SliceFrom(path, camIdx + Len(camliPrefix))
             IN  IF camIdx = 0 THEN ParseResult(<<>>, action, "nil")
                 ELSE IF ~HasPrefix(path, partitionPrefix)
                      THEN ParseResult(<<>>, action, "InvalidCamliPath")
                 ELSE LET partitionName == Slice(path, Len(partitionPrefix), camIdx)
                      IN  IF ~isValidPartitionName(partitionName)
                          THEN ParseResult(partitionName, action, "InvalidCamliPath")
                          ELSE ParseResult(partitionName, action, "nil")

\* parseCamliPath slicing out the partition name without having checked that
\* the path begins with the partition prefix
parseCamliPath_unguardedSlice(path) ==
    LET camIdx == Index(path, camliPrefix)
    IN  IF camIdx = -1 THEN ParseResult(<<>>, <<>>, "InvalidCamliPath")
        ELSE LET action == SliceFrom(path, camIdx + Len(camliPrefix))
             IN  IF camIdx = 0 THEN ParseResult(<<>>, action, "nil")
                 ELSE IF ~SliceInBounds(path, Len(partitionPrefix), camIdx)
                      THEN ParseResult(<<>>, action, "panic")
                 ELSE LET partitionName == Slice(path, Len(partitionPrefix), camIdx)
                      IN  IF ~HasPrefix(path, partitionPrefix) \/ ~isValidPartitionName(partitionName)
                          THEN ParseResult(partitionName, action, "InvalidCamliPath")
                          ELSE ParseResult(partitionName, action, "nil")

\* parseCamliPath: (partitionName, action, err) of a request path; err is
\* "panic" when one of its two slice expressions is out of bounds
parseCamliPath(path) ==
    LET camIdx == Index(path, camliPrefix)
    IN  IF camIdx = -1 THEN ParseResult(<<>>, <<>>, "InvalidCamliPath")
        ELSE IF ~SliceInBounds(path, camIdx + Len(camliPrefix), Len(path))
             THEN ParseResult(<<>>, <<>>, "panic")
        ELSE LET action == SliceFrom(path, camIdx + Len(camliPrefix))
             IN  IF camIdx = 0 THEN ParseResult(<<>>, action, "nil")
                 ELSE IF ~HasPrefix(path, partitionPrefix)
                      THEN ParseResult(<<>>, action, "InvalidCamliPath")
                 ELSE IF ~SliceInBounds(path, Len(partitionPrefix), camIdx)
                      THEN ParseResult(<<>>, action, "panic")
                 ELSE LET partitionName == Slice(path, Len(partitionPrefix), camIdx)
                      IN  IF ~isValidPartitionName(partitionName)
                          THEN ParseResult(partitionName, action, "InvalidCamliPath")
                          ELSE ParseResult(partitionName, action, "nil")

\* ------------------------------------------------------------------------
\* Partitions and the registry
\* ------------------------------------------------------------------------

\* a partitionConfig value
partitionConfig(name, writable, readable, queue, mirrors, urlbase) ==
    [name |-> name, writable |-> writable, readable |-> readable,
     queue |-> queue, mirrors |-> mirrors, urlbase |-> urlbase]

\* references to partitions (Go pointers): nil, the main partition, the i-th
\* mirror of the main partition, the index handler's own partition
NilRef == [kind |-> "nil", idx |-> 0]

MainRef == [kind |-> "main", idx |-> 0]

MirrorRef(i) == [kind |-> "mirror", idx |-> i]

IndexRef == [kind |-> "index", idx |-> 0]

\* ------------------------------------------------------------------------
\* Inputs: flags, environment, requests
\* ------------------------------------------------------------------------

\* names that may be written in --queue-partitions
QueueNames == {<<>>, <<"a">>, <<"b">>, <<"a", "/", "b">>}

RECURSIVE SeqsUpTo(_, _)
\* all sequences over S of length at most n
SeqsUpTo(S, n) ==
    IF n = 0 THEN {<<>>}
    ELSE LET shorter == SeqsUpTo(S, n - 1)
         IN  shorter \union {Append(q, x) : q \in shorter, x \in S}

\* the values of --queue-partitions
QueueFlagValues == {Join(names, <<",">>) : names \in SeqsUpTo(QueueNames, MaxQueueNames)}

\* the values of --root
StorageRoots == {"", "/tmp/camliroot"}

\* the default of --queue-partitions
defaultQueuePartitions == <<"q", "u", "e", "u", "e", "-", "i", "n", "d", "e", "x", "e", "r">>

\* the command lines: in the configuration-file mode the flags of the other
\* mode are read by nothing and are left at their defaults, but for the list
\* of queue partitions
CommandLines ==
    {cl \in [useConfigFiles : BOOLEAN, queuePartitions : QueueFlagValues,
             storageRoot : StorageRoots, devMySql : BOOLEAN, devSearch : BOOLEAN] :
        cl.useConfigFiles => /\ cl.storageRoot = "/tmp/camliroot"
                             /\ ~cl.devMySql
                             /\ ~cl.devSearch}

\* the values of $CAMLI_PASSWORD
Passwords == {"", "secret"}

Methods == {"GET", "POST", "PUT", "DELETE"}

\* actions that may follow the marker in a request path
PathActions == {<<>>, S_stat, S_upload, S_remove, S_enumerate, <<"x">>}

\* what may precede the partition name in a request path
PathPrefixes == {<<>>, partitionPrefix, <<"/", "b", "o", "g", "u", "s", "-">>,
                 indexerPrefix, indexerPrefix \o partitionPrefix,
                 indexerPrefix \o <<"/", "b", "o", "g", "u", "s", "-">>}

\* partition names that may be written in a request path
PathNames == {<<>>, <<"a">>, <<"a", "/", "b">>}

RECURSIVE PathTails(_)
\* "/camli/<action>" followed by up to n - 1 further segments "/camli/x"
PathTails(n) ==
    IF n = 0 THEN {<<>>}
    ELSE IF n = 1 THEN {<<>>} \union {camliPrefix \o a : a \in PathActions}
    ELSE LET shorter == PathTails(n - 1)
         IN  shorter \union {t \o camliPrefix \o <<"x">> : t \in shorter \ {<<>>}}

\* the request paths
Paths ==
    {p \o n \o t : p \in PathPrefixes, n \in PathNames, t \in PathTails(MaxMarkers)}
        \union {P_root, P_setup, P_search, P_js, P_indexer}

\* ------------------------------------------------------------------------
\* State
\* ------------------------------------------------------------------------

VARIABLES
    pc,                   \* position of the process in main and the functions it calls
    flagUseConfigFiles,   \* --useconfigfiles
    flagQueuePartitions,  \* --queue-partitions
    flagStorageRoot,      \* --root
    flagDevMySql,         \* --devmysqlindexer
    flagDevSearch,        \* --devsearch
    AccessPassword,       \* auth.AccessPassword
    storage,              \* the package-level storage backend
    mainPartition,        \* *mainPartition
    queuePartitionMap,    \* name -> partition reference
    preMux,               \* whether pickPartitionHandlerMaybe is the pre-mux hook
    routes,               \* pattern -> handler, as registered on the web server
    indexPartition,       \* the partition captured by makeIndexHandler's closure
    req,                  \* the request being served
    route,                \* the handler the web server gave the request to
    parsed,               \* partName, action, err in the handler
    resp,                 \* what the handler did with the request
    ignoreCall            \* the last call of the ignore checker's functions

vars == <<pc, flagUseConfigFiles, flagQueuePartitions, flagStorageRoot, flagDevMySql,
          flagDevSearch, AccessPassword, storage, mainPartition,
          queuePartitionMap, preMux, routes, indexPartition, req, route, parsed, resp,
          ignoreCall>>

flags == <<flagUseConfigFiles, flagQueuePartitions, flagStorageRoot, flagDevMySql,
           flagDevSearch>>

serverState == <<AccessPassword, storage, mainPartition, queuePartitionMap, preMux,
                 routes, indexPartition>>

requestState == <<req, route, parsed, resp>>

NoRequest == [method |-> "", path |-> <<>>, authed |-> FALSE]

NoParse == ParseResult(<<>>, <<>>, "unset")

\* a handler the dispatcher may select: its category, whether it is wrapped in
\* auth.RequireAuth, and the partition and storage it was created with
Handler(category, auth, partition, store) ==
    [category |-> category, auth |-> auth, partition |-> partition, storage |-> store]

\* what a handler did: the kind of response, the handler that was selected,
\* and the storage operation that ran ("none" if none)
Response(kind, handler, backendOp) ==
    [kind |-> kind, handler |-> handler, backendOp |-> backendOp]

NoHandler == Handler("none", FALSE, NilRef, "nil")

NoResponse == Response("none", NoHandler, "none")

Init ==
    /\ pc = "main"
    /\ flagUseConfigFiles = FALSE
    /\ flagQueuePartitions = defaultQueuePartitions
    /\ flagStorageRoot = "/tmp/camliroot"
    /\ flagDevMySql = FALSE
    /\ flagDevSearch = FALSE
    /\ AccessPassword = ""
    /\ storage = "nil"
    /\ mainPartition = partitionConfig(<<>>, TRUE, TRUE, FALSE, <<>>, placeholderURL)
    /\ queuePartitionMap = <<>>
    /\ preMux = FALSE
    /\ routes = <<>>
    /\ indexPartition = partitionConfig(<<>>, FALSE, FALSE, FALSE, <<>>, <<>>)
    /\ req = NoRequest
    /\ route = "none"
    /\ parsed = NoParse
    /\ resp = NoResponse
    /\ ignoreCall = [fn |-> "none", pattern |-> <<>>, fullpath |-> <<>>, result |-> FALSE]

\* ------------------------------------------------------------------------
\* Startup: main, commandLineConfigurationMain, configFileMain
\* ------------------------------------------------------------------------

\* a Go map after m[key] = value
MapSet(m, key, value) ==
    [k \in (DOMAIN m) \union {key} |-> IF k = key THEN value ELSE m[k]]

\* routes with one more pattern registered (ws.HandleFunc, ws.Handle)
HandleFunc(rs, pattern, handler) == MapSet(rs, pattern, handler)

\* main: flag.Parse and the choice of the configuration mode
Main ==
    /\ pc = "main"
    /\ \E cl \in CommandLines :
          /\ flagUseConfigFiles' = cl.useConfigFiles
          /\ flagQueuePartitions' = cl.queuePartitions
          /\ flagStorageRoot' = cl.storageRoot
          /\ flagDevMySql' = cl.devMySql
          /\ flagDevSearch' = cl.devSearch
          /\ pc' = IF cl.useConfigFiles THEN "configFileMain" ELSE "getenv"
    /\ UNCHANGED <<ignoreCall, serverState, requestState>>

\* configFileMain: a web server with the root and setup pages only, then Serve
ConfigFileMain ==
    /\ pc = "configFileMain"
    /\ routes' = HandleFunc(HandleFunc(routes, P_root, "handleRoot"), P_setup, "setupHome")
    /\ pc' = "serving"
    /\ UNCHANGED <<ignoreCall, flags, AccessPassword, storage, mainPartition, queuePartitionMap,
                   preMux, indexPartition, requestState>>

\* commandLineConfigurationMain: the access password must be set
CheckPassword ==
    /\ pc = "getenv"
    /\ \E envPassword \in Passwords :
          /\ AccessPassword' = envPassword
          /\ pc' = IF envPassword = "" THEN "exited" ELSE "root"
    /\ UNCHANGED <<ignoreCall, flags, storage, mainPartition, queuePartitionMap, preMux, routes,
                   indexPartition, requestState>>

\* commandLineConfigurationMain: --root must be set and localdisk.New succeed
OpenStorage ==
    /\ pc = "root"
    /\ \E newFails \in BOOLEAN :
          IF flagStorageRoot = "" \/ newFails
          THEN pc' = "exited" /\ storage' = storage
          ELSE pc' = "webserver" /\ storage' = "localdisk"
    /\ UNCHANGED <<ignoreCall, flags, AccessPassword, mainPartition, queuePartitionMap, preMux,
                   routes, indexPartition, requestState>>

\* commandLineConfigurationMain: webserver.New, then the main partition's
\* urlbase is set from ws.BaseURL()
SetBaseURL ==
    /\ pc = "webserver"
    /\ mainPartition' = [mainPartition EXCEPT !.urlbase = serverURL]
    /\ pc' = "mirrors"
    /\ UNCHANGED <<ignoreCall, flags, AccessPassword, storage, queuePartitionMap, preMux, routes,
                   indexPartition, requestState>>

\* the result of the loop of setupMirrorPartitions
MirrorSetup(fatal, map, mirrors) == [fatal |-> fatal, map |-> map, mirrors |-> mirrors]

RECURSIVE mirrorLoop(_, _, _, _)
\* the loop of setupMirrorPartitions over the names left to handle
mirrorLoop(names, map, mirrors, urlbase) ==
    IF names = <<>> THEN MirrorSetup(FALSE, map, mirrors)
    ELSE LET partName == Head(names)
             part == partitionConfig(partName, FALSE, TRUE, TRUE, <<>>,
                                     urlbase \o <<"/", "p", "a", "r", "t", "i", "t", "i", "o", "n", "-">> \o partName)
         IN  IF partName \in DOMAIN map
             THEN MirrorSetup(TRUE, map, mirrors)
             ELSE mirrorLoop(Tail(names), map, Append(mirrors, part), urlbase)

\* setupMirrorPartitions run while the main partition's urlbase is the placeholder
setupMirrorPartitions_earlyURL(map, flag, main) ==
    LET map1 == MapSet(map, <<>>, MainRef)
    IN  IF flag = <<>> THEN MirrorSetup(FALSE, map1, main.mirrors)
        ELSE mirrorLoop(Split(flag, <<",">>), map1, main.mirrors, placeholderURL)

\* setupMirrorPartitions, from the registry, the flag and the main partition
setupMirrorPartitions(map, flag, main) ==
    LET map1 == MapSet(map, <<>>, MainRef)
    IN  IF flag = <<>> THEN MirrorSetup(FALSE, map1, main.mirrors)
        ELSE mirrorLoop(Split(flag, <<",">>), map1, main.mirrors, main.urlbase)

\* commandLineConfigurationMain: setupMirrorPartitions()
SetupMirrorPartitions ==
    /\ pc = "mirrors"
    /\ LET r == setupMirrorPartitions(queuePartitionMap, flagQueuePartitions, mainPartition)
       IN  /\ queuePartitionMap' = r.map
           /\ mainPartition' = [mainPartition EXCEPT !.mirrors = r.mirrors]
           /\ pc' = IF r.fatal THEN "exited" ELSE "routes"
    /\ UNCHANGED <<ignoreCall, flags, AccessPassword, storage, preMux, routes, indexPartition,
                   requestState>>

\* commandLineConfigurationMain: the pre-mux hook and the two fixed routes
RegisterRoutes ==
    /\ pc = "routes"
    /\ preMux' = TRUE
    /\ routes' = HandleFunc(HandleFunc(routes, P_root, "handleRoot"), P_camli, "handleCamli")
    /\ pc' = "indexer"
    /\ UNCHANGED <<ignoreCall, flags, AccessPassword, storage, mainPartition, queuePartitionMap,
                   indexPartition, requestState>>

\* commandLineConfigurationMain: with --devsearch or --devmysqlindexer the
\* public key must be configured and the indexer's database alive
SetupIndexer ==
    /\ pc = "indexer"
    /\ \E keyConfigured \in BOOLEAN, alive \in BOOLEAN :
          pc' = IF (flagDevSearch \/ flagDevMySql) /\ ~(keyConfigured /\ alive)
                THEN "exited" ELSE "devroutes"
    /\ UNCHANGED <<ignoreCall, flags, serverState, requestState>>

\* makeIndexHandler with the writable and readable flags exchanged
makeIndexHandler_readOnly(main) ==
    partitionConfig(indexerName, FALSE, TRUE, FALSE, <<>>, main.urlbase \o indexerPrefix)

\* makeIndexHandler: the partition its closure captures
makeIndexHandler(main) ==
    partitionConfig(indexerName, TRUE, FALSE, FALSE, <<>>, main.urlbase \o indexerPrefix)

\* commandLineConfigurationMain: the optional search and indexer routes, the
\* static files, and ws.Serve()
RegisterDevRoutesAndServe ==
    /\ pc = "devroutes"
    /\ LET r1 == IF flagDevSearch THEN HandleFunc(routes, P_search, "search") ELSE routes
           r2 == IF flagDevMySql THEN HandleFunc(r1, P_indexer, "indexHandler") ELSE r1
       IN  routes' = HandleFunc(r2, P_js, "fileServer")
    /\ indexPartition' = IF flagDevMySql THEN makeIndexHandler(mainPartition)
                         ELSE indexPartition
    /\ pc' = "serving"
    /\ UNCHANGED <<ignoreCall, flags, AccessPassword, storage, mainPartition, queuePartitionMap,
                   preMux, requestState>>

\* ------------------------------------------------------------------------
\* Dispatch
\* ------------------------------------------------------------------------

\* unsupportedHandler: the "Unsupported camlistore path or method." error
unsupportedHandler == Handler("unsupported", FALSE, NilRef, "nil")

\* auth.RequireAuth: the handler wrapped in the credential check
RequireAuth(handler) == [handler EXCEPT !.auth = TRUE]

\* handleCamliUsingStorage that leaves enumerate-blobs without the credential check
handleCamliUsingStorage_openEnumerate(method, action, partition, store) ==
    IF method = "GET" THEN
        IF action = S_enumerate THEN Handler("enumerate", FALSE, partition, store)
        ELSE IF action = S_stat THEN RequireAuth(Handler("stat", FALSE, partition, store))
        ELSE Handler("get", FALSE, NilRef, store)
    ELSE IF method = "POST" THEN
        IF action = S_stat THEN RequireAuth(Handler("stat", FALSE, partition, store))
        ELSE IF action = S_upload THEN RequireAuth(Handler("upload", FALSE, partition, store))
        ELSE IF action = S_remove THEN RequireAuth(Handler("remove", FALSE, partition, store))
        ELSE unsupportedHandler
    ELSE IF method = "PUT" THEN RequireAuth(Handler("put", FALSE, partition, store))
    ELSE unsupportedHandler

\* handleCamliUsingStorage whose POST switch falls through to the blob fetch
handleCamliUsingStorage_postDefault(method, action, partition, store) ==
    IF method = "GET" THEN
        IF action = S_enumerate THEN RequireAuth(Handler("enumerate", FALSE, partition, store))
        ELSE IF action = S_stat THEN RequireAuth(Handler("stat", FALSE, partition, store))
        ELSE Handler("get", FALSE, NilRef, store)
    ELSE IF method = "POST" THEN
        IF action = S_stat THEN RequireAuth(Handler("stat", FALSE, partition, store))
        ELSE IF action = S_upload THEN RequireAuth(Handler("upload", FALSE, partition, store))
        ELSE IF action = S_remove THEN RequireAuth(Handler("remove", FALSE, partition, store))
        ELSE Handler("get", FALSE, NilRef, store)
    ELSE IF method = "PUT" THEN RequireAuth(Handler("put", FALSE, partition, store))
    ELSE unsupportedHandler

\* handleCamliUsingStorage: the handler selected for (method, action)
handleCamliUsingStorage(method, action, partition, store) ==
    IF method = "GET" THEN
        IF action = S_enumerate THEN RequireAuth(Handler("enumerate", FALSE, partition, store))
        ELSE IF action = S_stat THEN RequireAuth(Handler("stat", FALSE, partition, store))
        ELSE Handler("get", FALSE, NilRef, store)
    ELSE IF method = "POST" THEN
        IF action = S_stat THEN RequireAuth(Handler("stat", FALSE, partition, store))
        ELSE IF action = S_upload THEN RequireAuth(Handler("upload", FALSE, partition, store))
        ELSE IF action = S_remove THEN RequireAuth(Handler("remove", FALSE, partition, store))
        ELSE unsupportedHandler
    ELSE IF method = "PUT" THEN RequireAuth(Handler("put", FALSE, partition, store))
    ELSE unsupportedHandler

\* handler(conn, req): the response of the selected handler to a request
\* whose credential check gives authed
serve(handler, authed) ==
    IF handler.category = "unsupported" THEN Response("unsupported", handler, "none")
    ELSE IF handler.auth /\ ~authed THEN Response("unauthorized", handler, "none")
    ELSE Response("ok", handler, handler.category)

\* what a request handler leaves behind: its locals and its response
Handled(p, r) == [parsed |-> p, resp |-> r]

\* handleCamli that dispatches without looking the partition up in the registry
handleCamli_noLookup(method, path, authed, map, store) ==
    LET p == parseCamliPath(path)
    IN  IF p.err # "nil" THEN Handled(p, serve(unsupportedHandler, authed))
        ELSE LET partition == IF p.partitionName \in DOMAIN map
                              THEN map[p.partitionName] ELSE NilRef
             IN  Handled(p, serve(handleCamliUsingStorage(method, p.action, partition, store),
                                  authed))

\* handleCamli: parse, look the partition up, dispatch
handleCamli(method, path, authed, map, store) ==
    LET p == parseCamliPath(path)
    IN  IF p.err = "panic" THEN Handled(p, Response("panic", NoHandler, "none"))
        ELSE IF p.err # "nil" THEN Handled(p, serve(unsupportedHandler, authed))
        ELSE LET partition == IF p.partitionName \in DOMAIN map
                              THEN map[p.partitionName] ELSE NilRef
             IN  IF partition = NilRef
                 THEN Handled(p, Response("unconfigured", NoHandler, "none"))
                 ELSE Handled(p, serve(handleCamliUsingStorage(method, p.action, partition, store),
                                       authed))

\* the index handler looking the parsed partition name up in the registry
indexHandler_useRegistry(method, path, authed) ==
    IF ~HasPrefix(path, indexerPrefix)
    THEN Handled(NoParse, Response("panic", NoHandler, "none"))
    ELSE handleCamli(method, SliceFrom(path, Len(indexerPrefix)), authed,
                     queuePartitionMap, "indexer")

\* the closure makeIndexHandler returns: strip the mount prefix, parse, dispatch
\* on the handler's own partition and the indexer as storage
indexHandler(method, path, authed) ==
    IF ~HasPrefix(path, indexerPrefix)
    THEN Handled(NoParse, Response("panic", NoHandler, "none"))
    ELSE LET p == parseCamliPath(SliceFrom(path, Len(indexerPrefix)))
         IN  IF p.err = "panic" THEN Handled(p, Response("panic", NoHandler, "none"))
             ELSE IF p.err # "nil" THEN Handled(p, serve(unsupportedHandler, authed))
             ELSE Handled(p, serve(handleCamliUsingStorage(method, p.action, IndexRef, "indexer"),
                                   authed))

\* ------------------------------------------------------------------------
\* The web server: pre-mux hook and route table
\* ------------------------------------------------------------------------

\* pickPartitionHandlerMaybe taking every path that contains the prefix token
pickPartitionHandlerMaybe_anywhere(path) == Index(path, partitionPrefix) # -1

\* pickPartitionHandlerMaybe: whether the hook takes the request
pickPartitionHandlerMaybe(path) == HasPrefix(path, partitionPrefix)

\* http.ServeMux: a pattern ending in a slash matches every path below it,
\* any other pattern matches only itself
pathMatch(pattern, path) ==
    IF pattern[Len(pattern)] = "/" THEN HasPrefix(path, pattern) ELSE pattern = path

\* the handler the web server gives a request to: the hook first, then the
\* longest matching pattern
Route(path) ==
    IF preMux /\ pickPartitionHandlerMaybe(path) THEN "handleCamli"
    ELSE LET matching == {p \in DOMAIN routes : pathMatch(p, path)}
         IN  IF matching = {} THEN "notFound"
             ELSE routes[CHOOSE p \in matching : \A q \in matching : Len(q) <= Len(p)]

\* ------------------------------------------------------------------------
\* Serving
\* ------------------------------------------------------------------------

\* ServeCamli whose handler registers the name of an unconfigured partition
\* (on the main partition) instead of only refusing the request
ServeCamli_registers(method, path, authed) ==
    /\ pc = "serving"
    /\ req = NoRequest
    /\ Route(path) = "handleCamli"
    /\ req' = [method |-> method, path |-> path, authed |-> authed]
    /\ route' = "handleCamli"
    /\ LET h == handleCamli(method, path, authed, queuePartitionMap, storage)
       IN  /\ parsed' = h.parsed
           /\ resp' = h.resp
           /\ queuePartitionMap' = IF h.resp.kind = "unconfigured"
                                   THEN MapSet(queuePartitionMap, h.parsed.partitionName, MainRef)
                                   ELSE queuePartitionMap
    /\ UNCHANGED <<pc, flags, AccessPassword, storage, mainPartition, preMux, routes,
                   indexPartition, ignoreCall>>

\* a request the web server gives to handleCamli
ServeCamli(method, path, authed) ==
    /\ pc = "serving"
    /\ req = NoRequest
    /\ Route(path) = "handleCamli"
    /\ req' = [method |-> method, path |-> path, authed |-> authed]
    /\ route' = "handleCamli"
    /\ LET h == handleCamli(method, path, authed, queuePartitionMap, storage)
       IN  parsed' = h.parsed /\ resp' = h.resp
    /\ UNCHANGED <<pc, flags, serverState, ignoreCall>>

\* a request the web server gives to the index handler
ServeIndexer(method, path, authed) ==
    /\ pc = "serving"
    /\ req = NoRequest
    /\ Route(path) = "indexHandler"
    /\ req' = [method |-> method, path |-> path, authed |-> authed]
    /\ route' = "indexHandler"
    /\ LET h == indexHandler(method, path, authed)
       IN  parsed' = h.parsed /\ resp' = h.resp
    /\ UNCHANGED <<pc, flags, serverState, ignoreCall>>

\* a request for the root page, the setup page, the search handler, a static
\* file, or a path no pattern matches
ServeOther(method, path, authed) ==
    /\ pc = "serving"
    /\ req = NoRequest
    /\ Route(path) \notin {"handleCamli", "indexHandler"}
    /\ req' = [method |-> method, path |-> path, authed |-> authed]
    /\ route' = Route(path)
    /\ parsed' = NoParse
    /\ resp' = IF Route(path) = "search" /\ ~authed
               THEN Response("unauthorized", NoHandler, "none")
               ELSE Response(Route(path), NoHandler, "none")
    /\ UNCHANGED <<pc, flags, serverState, ignoreCall>>

\* the request is over: its context is dropped and the next one can be served
FinishRequest ==
    /\ pc = "serving"
    /\ req # NoRequest
    /\ req' = NoRequest
    /\ route' = "none"
    /\ parsed' = NoParse
    /\ resp' = NoResponse
    /\ UNCHANGED <<pc, flags, serverState, ignoreCall>>

Startup ==
    \/ Main
    \/ ConfigFileMain
    \/ CheckPassword
    \/ OpenStorage
    \/ SetBaseURL
    \/ SetupMirrorPartitions
    \/ RegisterRoutes
    \/ SetupIndexer
    \/ RegisterDevRoutesAndServe

Next ==
    \/ Startup
    \/ /\ pc = "serving" /\ req = NoRequest
       /\ \E method \in Methods, path \in Paths, authed \in BOOLEAN :
             ServeCamli(method, path, authed)
    \/ /\ pc = "serving" /\ req = NoRequest
       /\ \E method \in Methods, path \in Paths, authed \in BOOLEAN :
             ServeIndexer(method, path, authed)
    \/ /\ pc = "serving" /\ req = NoRequest
       /\ \E method \in Methods, path \in Paths, authed \in BOOLEAN :
             ServeOther(method, path, authed)
    \/ FinishRequest

Spec == Init /\ [][Next]_vars

\* ------------------------------------------------------------------------
\* The handlers called directly, with any path (as a test of the handler does)
\* ------------------------------------------------------------------------

\* handleCamli(conn, req) for an arbitrary request
CallHandleCamli(method, path, authed) ==
    /\ pc = "serving"
    /\ req = NoRequest
    /\ ~flagUseConfigFiles
    /\ req' = [method |-> method, path |-> path, authed |-> authed]
    /\ route' = "handleCamli"
    /\ LET h == handleCamli(method, path, authed, queuePartitionMap, storage)
       IN  parsed' = h.parsed /\ resp' = h.resp
    /\ UNCHANGED <<pc, flags, serverState, ignoreCall>>

\* the index handler for an arbitrary request
CallIndexHandler(method, path, authed) ==
    /\ pc = "serving"
    /\ req = NoRequest
    /\ flagDevMySql
    /\ ~flagUseConfigFiles
    /\ req' = [method |-> method, path |-> path, authed |-> authed]
    /\ route' = "indexHandler"
    /\ LET h == indexHandler(method, path, authed)
       IN  parsed' = h.parsed /\ resp' = h.resp
    /\ UNCHANGED <<pc, flags, serverState, ignoreCall>>

NextCall ==
    \/ Startup
    \/ /\ pc = "serving" /\ req = NoRequest
       /\ \E method \in Methods, path \in Paths, authed \in BOOLEAN :
             CallHandleCamli(method, path, authed)
    \/ /\ pc = "serving" /\ req = NoRequest
       /\ \E method \in Methods, path \in Paths, authed \in BOOLEAN :
             CallIndexHandler(method, path, authed)
    \/ FinishRequest

SpecCall == Init /\ [][NextCall]_vars

\* ------------------------------------------------------------------------
\* The client's ignore checker (newIgnoreChecker and its helpers)
\* ------------------------------------------------------------------------

\* osutil.HomeDir()
homeDir == <<"/", "h", "o", "m", "e", "/", "u">>

\* the patterns of TestIsIgnoredFile and TestIgnoreFns
IgnorePatterns ==
    {<<"/", "h", "o", "m", "e", "/", "u", "/", "D", "o", "w", "n", "l", "o", "a", "d", "s", "/", "p", "o", "n", "y", ".", "j", "p", "g">>,
     <<"/", "h", "o", "m", "e", "/", "u", "/", "D", "o", "w", "n", "l", "o", "a", "d", "s", "/", "p", "o", "n", "y", ".", "*">>,
     <<"/", "h", "o", "m", "e", "/", "u", "/", "D", "o", "w", "n", "l", "o", "a", "d", "s", "/", "*", ".", "j", "p", "g">>,
     <<"/", "h", "o", "m", "e", "/", "u", "/", "D", "o", "w", "n", "l", "o", "a", "d", "s", "/", "*">>,
     <<"*", ".", "j", "p", "g">>,
     <<"p", "o", "n", "y", ".", "*">>,
     <<"*", ".", "f", "o", "o">>,
     <<"f", "o", "o", ".", "*">>,
     <<"/", "h", "o", "m", "e", "/", "u", "/", "D", "o", "w", "n", "l", "o", "a", "d", "s">>,
     <<"/", "h", "o", "m", "e", "/", "u", "/", "D", "o", "w", "n">>,
     <<"~", "/", "D", "o", "w", "n", "l", "o", "a", "d", "s", "/", "p", "o", "n", "y", ".", "j", "p", "g">>,
     <<"~", "/", "D", "o", "w", "n", "l", "o", "a", "d", "s", "/", "p", "o", "n", "y", ".", "*">>,
     <<"~", "/", "D", "o", "w", "n", "l", "o", "a", "d", "s", "/", "*", ".", "j", "p", "g">>,
     <<"~", "/", "D", "o", "w", "n", "l", "o", "a", "d", "s">>,
     <<"~", "/", "D", "o", "w", "n">>,
     <<"~", "/", "D", "o", "w", "n", "l", "o", "a", "d", "s", "A", "n", "d", "M", "o", "r", "e">>,
     <<"/", "h", "o", "m", "e", "/", "u">>,
     <<"D", "o", "w", "n", "l", "o", "a", "d", "s">>,
     <<"D", "o", "w", "n">>,
     <<"/", "h", "o", "m", "e", "/", "p", "o", "n", "y", "/", "r", "a", "i", "n", "b", "o", "w", ".", "*">>,
     <<"r", "a", "i", "n", "b", "o", "w", ".", "*">>,
     <<"p", "o", "n", "y", "/", "r", "a", "i", "n", "b", "o", "w", ".", "*">>,
     <<"/", "h", "o", "m", "e", "/", "p", "o", "n", "y">>,
     <<"/", "h", "o", "m", "e", "/", "l", "i", "z", "a", "r", "d">>,
     <<"p", "o", "n", "y">>,
     <<"p", "o", "n">>}

\* the file paths of TestIsIgnoredFile and TestIgnoreFns
IgnorePaths ==
    {<<"/", "h", "o", "m", "e", "/", "u", "/", "D", "o", "w", "n", "l", "o", "a", "d", "s", "/", "p", "o", "n", "y", ".", "j", "p", "g">>,
     <<"/", "h", "o", "m", "e", "/", "p", "o", "n", "y", "/", "r", "a", "i", "n", "b", "o", "w", ".", "j", "p", "g">>}

RECURSIVE Match(_, _)
\* filepath.Match for patterns whose only metacharacter is "*", which
\* matches any run of characters other than the separator
Match(pattern, name) ==
    IF pattern = <<>> THEN name = <<>>
    ELSE IF Head(pattern) = "*"
         THEN \E k \in 0..Len(name) :
                 /\ \A i \in 1..k : name[i] # "/"
                 /\ Match(Tail(pattern), SubSeq(name, k + 1, Len(name)))
         ELSE /\ name # <<>>
              /\ Head(name) = Head(pattern)
              /\ Match(Tail(pattern), Tail(name))

\* filepath.Base for a path that does not end in a separator
Base(path) ==
    LET i == Index_last(path, <<"/">>)
    IN  IF i = -1 THEN path ELSE SliceFrom(path, i + 1)

\* isShellPatternMatch: the pattern matches the whole path or its base name
isShellPatternMatch(shellPattern, fullpath) ==
    \/ Match(shellPattern, fullpath)
    \/ Match(shellPattern, Base(fullpath))

\* hasDirPrefix accepting any string prefix
hasDirPrefix_stringPrefix(dirPrefix, fullpath) == HasPrefix(fullpath, dirPrefix)

\* hasDirPrefix: fullpath is dirPrefix or lies below the directory dirPrefix
hasDirPrefix(dirPrefix, fullpath) ==
    /\ HasPrefix(fullpath, dirPrefix)
    /\ \/ Len(fullpath) = Len(dirPrefix)
       \/ fullpath[Len(dirPrefix) + 1] = "/"

\* hasComponent accepting any substring
hasComponent_substring(component, fullpath) == Index(fullpath, component) # -1

\* hasComponent: component occurs in fullpath between separators (or an end)
hasComponent(component, fullpath) ==
    \E i \in 0..(Len(fullpath) - Len(component)) :
        /\ Slice(fullpath, i, i + Len(component)) = component
        /\ i = 0 \/ fullpath[i] = "/"
        /\ i + Len(component) = Len(fullpath) \/ fullpath[i + Len(component) + 1] = "/"

\* the pattern with a leading "~/" replaced by the home directory
expandTilde(pattern) ==
    IF HasPrefix(pattern, <<"~", "/">>) THEN homeDir \o SliceFrom(pattern, 1) ELSE pattern

\* newIgnoreChecker([]string{pattern})(fullpath)
ignoreChecker(pattern, fullpath) ==
    LET p == expandTilde(pattern)
    IN  IF HasPrefix(p, <<"/">>)
        THEN isShellPatternMatch(p, fullpath) \/ hasDirPrefix(p, fullpath)
        ELSE isShellPatternMatch(p, fullpath) \/ hasComponent(p, fullpath)

\* a call of one of the functions and its result
IgnoreCall(fn, pattern, fullpath, result) ==
    [fn |-> fn, pattern |-> pattern, fullpath |-> fullpath, result |-> result]

\* hasDirPrefix(pattern, fullpath)
CallHasDirPrefix(pattern, fullpath) ==
    /\ ignoreCall' = IgnoreCall("hasDirPrefix", pattern, fullpath,
                                hasDirPrefix(pattern, fullpath))
    /\ UNCHANGED <<pc, flags, serverState, requestState>>

\* hasComponent(pattern, fullpath)
CallHasComponent(pattern, fullpath) ==
    /\ ignoreCall' = IgnoreCall("hasComponent", pattern, fullpath,
                                hasComponent(pattern, fullpath))
    /\ UNCHANGED <<pc, flags, serverState, requestState>>

\* newIgnoreChecker([]string{pattern})(fullpath)
CallIgnoreChecker(pattern, fullpath) ==
    /\ ignoreCall' = IgnoreCall("ignoreChecker", pattern, fullpath,
                                ignoreChecker(pattern, fullpath))
    /\ UNCHANGED <<pc, flags, serverState, requestState>>

NextIgnore ==
    \/ \E pattern \in IgnorePatterns, fullpath \in IgnorePaths :
          CallHasDirPrefix(pattern, fullpath)
    \/ \E pattern \in IgnorePatterns, fullpath \in IgnorePaths :
          CallHasComponent(pattern, fullpath)
    \/ \E pattern \in IgnorePatterns, fullpath \in IgnorePaths :
          CallIgnoreChecker(pattern, fullpath)

SpecIgnore == Init /\ [][NextIgnore]_vars

\* ------------------------------------------------------------------------
\* Properties
\* ------------------------------------------------------------------------

\* a request reached handleCamliUsingStorage
Dispatched ==
    /\ route \in {"handleCamli", "indexHandler"}
    /\ parsed.err = "nil"
    /\ resp.kind \notin {"unconfigured", "panic"}

\* the handler category the dispatch table gives for (method, action)
TableCategory(method, action) ==
    CASE method = "GET" /\ action = S_enumerate -> "enumerate"
      [] method = "GET" /\ action = S_stat -> "stat"
      [] method = "GET" /\ action \notin {S_enumerate, S_stat} -> "get"
      [] method = "POST" /\ action = S_stat -> "stat"
      [] method = "POST" /\ action = S_upload -> "upload"
      [] method = "POST" /\ action = S_remove -> "remove"
      [] method = "PUT" -> "put"
      [] OTHER -> "unsupported"

\* C1: every dispatched request gets the handler category of the dispatch
\* table for its method and action, and every pair outside the table gets the
\* unsupported-handler client error.
C1_DispatchTable ==
    Dispatched =>
        /\ resp.handler.category = TableCategory(req.method, parsed.action)
        /\ (TableCategory(req.method, parsed.action) = "unsupported")
              <=> (resp.kind = "unsupported")

\* a POST with an action outside the table was answered with the client error
C1_Witness ==
    /\ Dispatched
    /\ req.method = "POST"
    /\ parsed.action = <<"x">>
    /\ resp.kind = "unsupported"
    /\ resp.backendOp = "none"

\* the (method, action) pairs the table marks auth-required
AuthRequired(method, action) ==
    TableCategory(method, action) \notin {"get", "unsupported"}

\* C2: a dispatched request whose (method, action) is auth-required never
\* reaches the storage backend when the credential check fails (it gets the
\* authentication failure), and runs the table's handler when it succeeds.
C2_AuthGating ==
    (Dispatched /\ AuthRequired(req.method, parsed.action)) =>
        /\ ~req.authed => (resp.kind = "unauthorized" /\ resp.backendOp = "none")
        /\ req.authed => /\ resp.kind = "ok"
                         /\ resp.backendOp = TableCategory(req.method, parsed.action)

\* GET /camli/enumerate-blobs without credentials was refused
C2_Witness ==
    /\ route = "handleCamli"
    /\ req.method = "GET"
    /\ req.path = camliPrefix \o S_enumerate
    /\ ~req.authed
    /\ resp.kind = "unauthorized"
    /\ resp.backendOp = "none"

\* the marker occurs in path at index i
MarkerAt(path, i) ==
    /\ i + Len(camliPrefix) <= Len(path)
    /\ \A k \in 1..Len(camliPrefix) : path[i + k] = camliPrefix[k]

\* path begins with prefix
StartsWith(path, prefix) ==
    /\ Len(path) >= Len(prefix)
    /\ \A k \in 1..Len(prefix) : path[k] = prefix[k]

\* i is the index of the first occurrence of the marker in path
FirstMarkerAt(path, i) ==
    /\ MarkerAt(path, i)
    /\ \A j \in 0..(i - 1) : ~MarkerAt(path, j)

\* C3: for a path that starts with the marker, handleCamli's parse gives the
\* empty partition name, everything after the marker as the action, no error.
C3_MarkerAtZero ==
    (route = "handleCamli" /\ FirstMarkerAt(req.path, 0)) =>
        /\ parsed.partitionName = <<>>
        /\ parsed.action = SubSeq(req.path, Len(camliPrefix) + 1, Len(req.path))
        /\ parsed.err = "nil"

\* a path starting with the marker and holding a second marker was parsed
C3_Witness ==
    /\ route = "handleCamli"
    /\ req.path = camliPrefix \o S_stat \o camliPrefix \o <<"x">>
    /\ parsed.action = S_stat \o camliPrefix \o <<"x">>
    /\ parsed.err = "nil"

\* a name without a slash (and so without the partition-prefix token)
NameIsValid(name) == \A k \in 1..Len(name) : name[k] # "/"

\* C4: for a path that begins with "/partition-", has its first marker at
\* idx > 0 and a valid name, the partition name is the text between the
\* prefix token and that first marker, the action is what follows the marker.
C4_PartitionName ==
    \A idx \in 1..Len(req.path) :
        ( /\ route = "handleCamli"
          /\ FirstMarkerAt(req.path, idx)
          /\ StartsWith(req.path, partitionPrefix)
          /\ NameIsValid(SubSeq(req.path, Len(partitionPrefix) + 1, idx)) ) =>
            /\ parsed.partitionName = SubSeq(req.path, Len(partitionPrefix) + 1, idx)
            /\ parsed.action = SubSeq(req.path, idx + Len(camliPrefix) + 1, Len(req.path))
            /\ parsed.err = "nil"

\* a partition path with two markers was split at the first one
C4_Witness ==
    /\ route = "handleCamli"
    /\ req.path = partitionPrefix \o <<"a">> \o camliPrefix \o S_stat \o camliPrefix \o <<"x">>
    /\ parsed.partitionName = <<"a">>
    /\ parsed.action = S_stat \o camliPrefix \o <<"x">>
    /\ parsed.err = "nil"

\* C5: a path without the marker, or with its first marker at an index > 0
\* and not beginning with "/partition-", fails to parse with the invalid-path
\* error and handleCamli answers with the unsupported client error.
C5_InvalidPath ==
    ( /\ route = "handleCamli"
      /\ \/ \A i \in 0..Len(req.path) : ~MarkerAt(req.path, i)
         \/ \E idx \in 1..Len(req.path) :
               /\ FirstMarkerAt(req.path, idx)
               /\ ~StartsWith(req.path, partitionPrefix) ) =>
        /\ parsed.err = "InvalidCamliPath"
        /\ resp.kind = "unsupported"
        /\ resp.backendOp = "none"

\* "/bogus-a/camli/stat" was rejected
C5_Witness ==
    /\ route = "handleCamli"
    /\ req.path = <<"/", "b", "o", "g", "u", "s", "-", "a">> \o camliPrefix \o S_stat
    /\ parsed.err = "InvalidCamliPath"
    /\ resp.kind = "unsupported"

\* the partition a reference points to
Deref(ref) ==
    CASE ref.kind = "main" -> mainPartition
      [] ref.kind = "mirror" -> mainPartition.mirrors[ref.idx]
      [] ref.kind = "index" -> indexPartition

\* the names written in --queue-partitions, in order
ConfiguredNames ==
    IF flagQueuePartitions = <<>> THEN <<>> ELSE Split(flagQueuePartitions, <<",">>)

\* the entries of a sequence are pairwise different
Distinct(names) ==
    \A i \in 1..Len(names), j \in 1..Len(names) : i # j => names[i] # names[j]

\* the server configured from the command line is serving requests
ServingCommandLine == pc = "serving" /\ ~flagUseConfigFiles

\* C6: while serving with a list of distinct queue partitions, the registry
\* holds the main partition under "" and every configured partition under
\* its name, and a request for a configured partition is not rejected as
\* unconfigured.
C6_MirrorsRegistered ==
    (ServingCommandLine /\ Distinct(ConfiguredNames)) =>
        /\ <<>> \in DOMAIN queuePartitionMap
        /\ queuePartitionMap[<<>>] = MainRef
        /\ \A i \in 1..Len(ConfiguredNames) :
              /\ ConfiguredNames[i] \in DOMAIN queuePartitionMap
              /\ Deref(queuePartitionMap[ConfiguredNames[i]]).name = ConfiguredNames[i]
        /\ \A i \in 1..Len(ConfiguredNames) :
              (route = "handleCamli" /\ parsed.err = "nil"
                 /\ parsed.partitionName = ConfiguredNames[i])
                  => resp.kind # "unconfigured"

\* C7: a request whose path parses to a partition name that is not in the
\* registry gets the unconfigured-partition client error; no handler of the
\* dispatch table is selected and no storage operation runs.
C7_Unconfigured ==
    ( /\ route = "handleCamli"
      /\ parsed.err = "nil"
      /\ parsed.partitionName \notin DOMAIN queuePartitionMap ) =>
        /\ resp.kind = "unconfigured"
        /\ resp.handler = NoHandler
        /\ resp.backendOp = "none"

\* an authenticated POST /partition-a/camli/upload, "a" not being registered
C7_Witness ==
    /\ route = "handleCamli"
    /\ req.method = "POST"
    /\ req.authed
    /\ req.path = partitionPrefix \o <<"a">> \o camliPrefix \o S_upload
    /\ <<"a">> \notin DOMAIN queuePartitionMap
    /\ resp.kind = "unconfigured"

\* the names of the main partition and of its mirrors, in order
PartitionNames ==
    <<mainPartition.name>> \o [i \in 1..Len(mainPartition.mirrors) |-> mainPartition.mirrors[i].name]

\* C8: a duplicate name in --queue-partitions is fatal, so while serving the
\* names of the main partition and of all mirrors are pairwise distinct.
C8_NoDuplicateNames == ServingCommandLine => Distinct(PartitionNames)

\* setupMirrorPartitions has returned
MirrorsBuilt ==
    /\ ~flagUseConfigFiles
    /\ pc \in {"routes", "indexer", "devroutes", "serving"}

\* the queue partition setupMirrorPartitions builds for a name
ExpectedMirror(name) ==
    [name |-> name, writable |-> FALSE, readable |-> TRUE, queue |-> TRUE,
     mirrors |-> <<>>, urlbase |-> mainPartition.urlbase \o partitionPrefix \o name]

\* C9: once the mirrors are built from a list of distinct names, the main
\* partition has exactly one mirror per name, in list order, readable, not
\* writable, a queue, its urlbase the main partition's current urlbase (the
\* server's base URL, not the placeholder) followed by "/partition-<name>".
C9_MirrorsBuilt ==
    (MirrorsBuilt /\ Distinct(ConfiguredNames)) =>
        /\ mainPartition.urlbase = serverURL
        /\ Len(mainPartition.mirrors) = Len(ConfiguredNames)
        /\ \A i \in 1..Len(ConfiguredNames) :
              mainPartition.mirrors[i] = ExpectedMirror(ConfiguredNames[i])

\* serving after --queue-partitions=a,b
C9_Witness ==
    /\ ServingCommandLine
    /\ flagQueuePartitions = <<"a", ",", "b">>
    /\ Len(mainPartition.mirrors) = 2
    /\ mainPartition.mirrors[1].name = <<"a">>
    /\ mainPartition.mirrors[2].name = <<"b">>
    /\ mainPartition.mirrors[2].urlbase = serverURL \o partitionPrefix \o <<"b">>

\* C10: while serving, the main partition is the only one with the empty
\* name, and every mirror's name is non-empty and valid (no slash, no
\* partition-prefix token).
C10_RegistryNames ==
    ServingCommandLine =>
        /\ mainPartition.name = <<>>
        /\ \A i \in 1..Len(mainPartition.mirrors) :
              /\ mainPartition.mirrors[i].name # <<>>
              /\ NameIsValid(mainPartition.mirrors[i].name)

\* the partition the handler resolved the request to
ResolvedPartition ==
    IF route = "indexHandler" THEN IndexRef ELSE queuePartitionMap[parsed.partitionName]

C12_UploadWritable ==
    (Dispatched /\ resp.backendOp = "upload") =>
        Deref(ResolvedPartition).writable

\* an authenticated POST /camli/upload ran the upload on the main partition
C12_Witness ==
    /\ route = "handleCamli"
    /\ req.method = "POST"
    /\ req.path = camliPrefix \o S_upload
    /\ resp.backendOp = "upload"
    /\ resp.handler.partition = MainRef
    /\ mainPartition.writable
    /\ Len(mainPartition.mirrors) > 0

\* C13: a GET read (blob fetch, enumerate-blobs, stat) reaches the storage
\* backend only for a partition whose readable flag is true.
C13_ReadReadable ==
    (Dispatched /\ req.method = "GET" /\ resp.backendOp \in {"get", "enumerate", "stat"}) =>
        Deref(ResolvedPartition).readable

\* a route pattern matches a path: a pattern ending in a slash matches the
\* paths that begin with it, any other pattern only itself
PatternMatches(pattern, path) ==
    IF pattern[Len(pattern)] = "/" THEN StartsWith(path, pattern) ELSE path = pattern

\* handler is what the route table alone gives for path
FromRouteTable(path, handler) ==
    IF \A p \in DOMAIN routes : ~PatternMatches(p, path)
    THEN handler = "notFound"
    ELSE \E p \in DOMAIN routes :
            /\ PatternMatches(p, path)
            /\ routes[p] = handler
            /\ \A q \in DOMAIN routes : PatternMatches(q, path) => Len(q) <= Len(p)

\* C14: where the pre-mux hook is installed, a request whose path starts
\* with "/partition-" is handled by handleCamli (and gets the unsupported
\* error if the path has no marker), and every other request goes to the
\* handler the route table gives.
C14_Interceptor ==
    (preMux /\ route # "none") =>
        /\ StartsWith(req.path, partitionPrefix) =>
              /\ route = "handleCamli"
              /\ (\A i \in 0..Len(req.path) : ~MarkerAt(req.path, i))
                    => resp.kind = "unsupported"
        /\ ~StartsWith(req.path, partitionPrefix) => FromRouteTable(req.path, route)

\* "/partition-a", without the marker, was answered by handleCamli
C14_Witness ==
    /\ preMux
    /\ req.path = partitionPrefix \o <<"a">>
    /\ route = "handleCamli"
    /\ resp.kind = "unsupported"

\* the path grammar rejects path: no marker, or a first marker at an index
\* > 0 that is not preceded by "/partition-" and a valid name
GrammarRejects(path) ==
    \/ \A i \in 0..Len(path) : ~MarkerAt(path, i)
    \/ \E idx \in 1..Len(path) :
          /\ FirstMarkerAt(path, idx)
          /\ \/ ~StartsWith(path, partitionPrefix)
             \/ ~NameIsValid(SubSeq(path, Len(partitionPrefix) + 1, idx))

\* what follows the first marker of path
ActionOf(path) ==
    LET idx == CHOOSE i \in 0..Len(path) : FirstMarkerAt(path, i)
    IN  SubSeq(path, idx + Len(camliPrefix) + 1, Len(path))

\* the request path of the mounted handler without the mount prefix
Unmounted == SubSeq(req.path, Len(indexerPrefix) + 1, Len(req.path))

\* C15: the mounted handler answers "<mount prefix>P" with the unsupported
\* error when the grammar rejects P; otherwise it selects the handler
\* category the dispatcher selects for the method and P's action, on its own
\* partition and the mounted backend, whatever partition name P carries and
\* whatever the registry holds.
C15_MountAdapter ==
    (route = "indexHandler" /\ StartsWith(req.path, indexerPrefix)) =>
        /\ GrammarRejects(Unmounted) =>
              /\ parsed.err = "InvalidCamliPath"
              /\ resp.kind = "unsupported"
              /\ resp.backendOp = "none"
        /\ ~GrammarRejects(Unmounted) =>
              /\ parsed.err = "nil"
              /\ parsed.action = ActionOf(Unmounted)
              /\ resp.kind # "unconfigured"
              /\ resp.handler.category = TableCategory(req.method, ActionOf(Unmounted))
              /\ resp.handler.category
                    = handleCamliUsingStorage(req.method, ActionOf(Unmounted), MainRef, storage).category
              /\ resp.handler.category # "unsupported" =>
                    /\ resp.handler.storage = "indexer"
                    /\ resp.handler.partition = IF resp.handler.category = "get"
                                                THEN NilRef ELSE IndexRef

\* an authenticated POST /indexer/partition-a/camli/upload ran the upload on
\* the index partition although "a" is not registered
C15_Witness ==
    /\ route = "indexHandler"
    /\ req.method = "POST"
    /\ req.path = indexerPrefix \o partitionPrefix \o <<"a">> \o camliPrefix \o S_upload
    /\ <<"a">> \notin DOMAIN queuePartitionMap
    /\ resp.backendOp = "upload"
    /\ resp.handler.partition = IndexRef
    /\ resp.handler.storage = "indexer"

\* C16: the server serves only after the main partition is registered, its
\* urlbase set from the server's base URL, and the mirrors built from the
\* configured list, whichever configuration mode was chosen.
C16_StartupBeforeServe ==
    pc = "serving" =>
        /\ <<>> \in DOMAIN queuePartitionMap
        /\ queuePartitionMap[<<>>] = MainRef
        /\ mainPartition.urlbase = serverURL
        /\ Len(mainPartition.mirrors) = Len(ConfiguredNames)

\* C17: the server serves only with a non-empty access credential,
\* whichever configuration mode was chosen.
C17_CredentialRequired == pc = "serving" => AccessPassword # ""

\* a is an initial part of b
IsPrefixSeq(a, b) ==
    /\ Len(a) <= Len(b)
    /\ \A k \in 1..Len(a) : a[k] = b[k]

\* the components of a path, an absolute path having an empty first one
Components(path) == Split(path, <<"/">>)

\* the pattern names whole components that lead the path
IsDirOf(pattern, fullpath) == IsPrefixSeq(Components(pattern), Components(fullpath))

\* the pattern is one whole component of the path
IsComponentOf(pattern, fullpath) ==
    \E k \in 1..Len(Components(fullpath)) : Components(fullpath)[k] = pattern

\* the pattern has no "*" / no separator
NoStar(pattern) == \A k \in 1..Len(pattern) : pattern[k] # "*"

\* the pattern is a single name
NoSeparator(pattern) == \A k \in 1..Len(pattern) : pattern[k] # "/"

\* a pattern after the "~/" expansion
Expanded(pattern) ==
    IF Len(pattern) >= 2 /\ pattern[1] = "~" /\ pattern[2] = "/"
    THEN homeDir \o SubSeq(pattern, 2, Len(pattern))
    ELSE pattern

routingState == <<queuePartitionMap, mainPartition, indexPartition>>

\* a request that failed: invalid path or unsupported method/action,
\* unconfigured partition, failed authentication
FailedRequest == resp.kind \in {"unsupported", "unconfigured", "unauthorized"}

ParsedPath ==
    IF route = "indexHandler" THEN SliceFrom(req.path, Len(indexerPrefix)) ELSE req.path

\* C20: no request the web server routes crashes its handler: neither slice
\* expression of parseCamliPath is out of bounds (a path that begins with
\* "/partition-" has its first "/camli/" at index 0 or at an index of at least
\* len("/partition-")), and the index handler's panic("bogus request") is not
\* reached
C20_NoCrash ==
    /\ resp.kind # "panic"
    /\ parsed.err # "panic"
    /\ route \in {"handleCamli", "indexHandler"} =>
          /\ HasPrefix(req.path, IF route = "indexHandler" THEN indexerPrefix ELSE <<>>)
          /\ LET camIdx == Index(ParsedPath, camliPrefix)
             IN  /\ camIdx # -1 =>
                       SliceInBounds(ParsedPath, camIdx + Len(camliPrefix), Len(ParsedPath))
                 /\ (camIdx > 0 /\ HasPrefix(ParsedPath, partitionPrefix)) =>
                       SliceInBounds(ParsedPath, Len(partitionPrefix), camIdx)

\* C20: the index handler has answered a request whose stripped path is
\* "/partition-/camli/x": the marker sits right after the partition prefix
\* and the name sliced out is empty
C20_Witness ==
    /\ pc = "serving"
    /\ route = "indexHandler"
    /\ req.path = indexerPrefix \o partitionPrefix \o camliPrefix \o <<"x">>
    /\ Index(ParsedPath, camliPrefix) = Len(partitionPrefix)
    /\ parsed.err = "nil"
    /\ parsed.partitionName = <<>>
    /\ resp.kind # "panic"

====
